---- MODULE Spec2Model ----
(***************************************************************************)
(* A model of the podcast feed builder in internal/services/generator.go:  *)
(* the Podcast (channel) value, the caller's Item value, the Enclosure     *)
(* objects both may point at, and every Add* operation and serialization   *)
(* entry point.                                                            *)
(*                                                                         *)
(* Go strings are TLA+ strings ("" is the empty string, \o concatenates).  *)
(* A nil-able pointer whose target is never written through after it is    *)
(* created (Author, IImage, ISummary, Image, AtomLink, time.Time) is a     *)
(* sequence: <<>> is nil, <<v>> points at v.  An Enclosure is written      *)
(* through its pointer by AddItem, so Enclosure objects live in `heap` and *)
(* the pointer is an address (0 is nil).                                   *)
(***************************************************************************)
EXTENDS Integers, Sequences, FiniteSets, TLC

VARIABLES
    p,        \* the Podcast the caller builds
    i,        \* the caller's Item value (what is passed to AddItem by value)
    heap,     \* Enclosure objects by address
    ret,      \* what the last AddItem call returned: [count, err]
    enc,      \* what the last Encode call did: writes, strategy calls, error
    str,      \* what the last String / Bytes call returned
    catCalls, \* history: the arguments of every AddCategory call so far
    atomSet,  \* history: AddAtomLink was called with a non-empty href
    nops      \* number of operations performed so far

vars == <<p, i, heap, ret, enc, str, catCalls, atomSet, nops>>

-----------------------------------------------------------------------------
(* Bounds of the model. *)

MaxOps == 3
MaxEnclosures == 2

-----------------------------------------------------------------------------
(* Constants of the program. *)

pVersion == "1.3.1"

M4A == 0
M4V == 1
MP4 == 2
MP3 == 3
MOV == 4
PDF == 5
EPUB == 6

enclosureDefault == "application/octet-stream"

SummaryLimit == 4000
SubTitleLimit == 64
SubTitleKeep == 61

Nil == <<>>
Ptr(v) == <<v>>
Deref(ptr) == ptr[1]

\* time.RFC1123Z layout applied to a time: the text is a function of the time.
RFC1123Z(t) == <<"RFC1123Z", t>>

\* Clock readings time.Now() can return; the zero time.Time is 0.
NowValues == {1, 2}

-----------------------------------------------------------------------------
(* errors: an error value is the chain of its messages, outermost first;   *)
(* nil is the empty chain.                                                 *)

NoError == <<>>
errors_New(msg) == <<msg>>
errors_Wrap(err, msg) == IF err = NoError THEN NoError ELSE <<msg>> \o err

RECURSIVE err_Error(_)
err_Error(err) ==
    IF Len(err) = 1 THEN err[1]
    ELSE err[1] \o ": " \o err_Error(Tail(err))

-----------------------------------------------------------------------------
(* Formatters *)

Digit(d) ==
    CASE d = 0 -> "0" [] d = 1 -> "1" [] d = 2 -> "2" [] d = 3 -> "3"
      [] d = 4 -> "4" [] d = 5 -> "5" [] d = 6 -> "6" [] d = 7 -> "7"
      [] d = 8 -> "8" [] d = 9 -> "9"

RECURSIVE FormatNat(_)
FormatNat(n) == IF n < 10 THEN Digit(n) ELSE FormatNat(n \div 10) \o Digit(n % 10)

\* strconv.FormatInt(n, 10)
FormatInt(n) == IF n < 0 THEN "-" \o FormatNat(-n) ELSE FormatNat(n)

\* fmt's %d and %02d verbs for a non-negative integer
Sprintf_d(n) == FormatInt(n)
Sprintf_02d(n) == IF n >= 0 /\ n < 10 THEN "0" \o FormatInt(n) ELSE FormatInt(n)

EnclosureType_String(et) ==
    CASE et = M4A -> "audio/x-m4a"
      [] et = M4V -> "video/x-m4v"
      [] et = MP4 -> "video/mp4"
      [] et = MP3 -> "audio/mpeg"
      [] et = MOV -> "video/quicktime"
      [] et = PDF -> "application/pdf"
      [] et = EPUB -> "document/x-epub"
      [] OTHER -> enclosureDefault

\* parseDuration with the minutes of MM:SS and H:MM:SS left unpadded.
parseDuration_unpadded(duration) ==
    LET h == duration \div 3600
        d1 == duration % 3600
        m == d1 \div 60
        s == d1 % 60
    IN  IF h > 9 THEN Sprintf_02d(h) \o ":" \o Sprintf_02d(m) \o ":" \o Sprintf_02d(s)
        ELSE IF h > 0 THEN Sprintf_d(h) \o ":" \o Sprintf_d(m) \o ":" \o Sprintf_02d(s)
        ELSE Sprintf_d(m) \o ":" \o Sprintf_02d(s)

parseDuration(duration) ==
    LET h == duration \div 3600
        d1 == duration % 3600
        m == d1 \div 60
        s == d1 % 60
    IN  IF h > 9 THEN Sprintf_02d(h) \o ":" \o Sprintf_02d(m) \o ":" \o Sprintf_02d(s)
        ELSE IF h > 0 THEN Sprintf_d(h) \o ":" \o Sprintf_02d(m) \o ":" \o Sprintf_02d(s)
        ELSE IF m > 9 THEN Sprintf_02d(m) \o ":" \o Sprintf_02d(s)
        ELSE Sprintf_d(m) \o ":" \o Sprintf_02d(s)

\* t is a pointer to a time.Time (Nil, or a pointer at a time; 0 is the zero time), now is
\* what time.Now() returns when it is read.
parseDateRFC1123Z(t, now) ==
    IF t # Nil /\ Deref(t) # 0 THEN RFC1123Z(Deref(t)) ELSE RFC1123Z(now)

\* a is a pointer to an Author
parseAuthorNameEmail(a) ==
    IF a # Nil
    THEN IF Deref(a).Name # ""
         THEN Deref(a).Email \o " (" \o Deref(a).Name \o ")"
         ELSE Deref(a).Email
    ELSE ""

\* A text is its source and the number of runes of it that are kept; tail is
\* what is appended after them.
Text(src, n) == [src |-> src, n |-> n, tail |-> ""]
EmptyText == Text("", 0)

-----------------------------------------------------------------------------
(* Values *)

Author(name, email) == [Name |-> name, Email |-> email]

ZeroEnclosure ==
    [URL |-> "", Length |-> 0, LengthFormatted |-> "", Type |-> 0,
     TypeFormatted |-> ""]

ZeroItem ==
    [GUID |-> "", Title |-> "", Link |-> "", Description |-> "",
     Author |-> Nil, AuthorFormatted |-> "", PubDate |-> Nil,
     PubDateFormatted |-> Nil, Enclosure |-> 0, IAuthor |-> "",
     ISummary |-> Nil, IImage |-> Nil, IDuration |-> ""]

Addrs == 1..MaxEnclosures

New(title, link, description, pubDate, lastBuildDate, now1, now2) ==
    [Title |-> title, Link |-> link, Description |-> description,
     Category |-> "",
     Generator |-> "go podcast v" \o pVersion \o " (github.com/eduncan911/podcast)",
     Language |-> "en-us",
     LastBuildDate |-> parseDateRFC1123Z(lastBuildDate, now2),
     ManagingEditor |-> "",
     PubDate |-> parseDateRFC1123Z(pubDate, now1),
     Image |-> Nil, AtomLink |-> Nil,
     IAuthor |-> "", ISubtitle |-> EmptyText, ISummary |-> Nil, IImage |-> Nil,
     ICategories |-> <<>>,
     Items |-> <<>>,
     encode |-> "encoder"]

-----------------------------------------------------------------------------
(* Memory: the Enclosure objects.  An object no pointer reaches any more is *)
(* collected (its address holds the zero Enclosure and can be handed out   *)
(* again).                                                                 *)

ItemRefs(pp) == {pp.Items[k].Enclosure : k \in 1..Len(pp.Items)} \ {0}

Collect(hp, pp, it) ==
    [a \in Addrs |->
        IF a \in ItemRefs(pp) \cup {it.Enclosure} THEN hp[a] ELSE ZeroEnclosure]

FreeAddrs(pp) == Addrs \ ItemRefs(pp)

NewAddr(pp) == CHOOSE a \in FreeAddrs(pp) : \A b \in FreeAddrs(pp) : a <= b

\* An Item with its Enclosure pointer followed.
ItemView(it, hp) ==
    [it EXCEPT !.Enclosure = IF it.Enclosure = 0 THEN Nil ELSE Ptr(hp[it.Enclosure])]

\* The Podcast as a reader of it sees it: every Item with its Enclosure.
Channel(pp, hp) ==
    [pp EXCEPT !.Items = [k \in 1..Len(pp.Items) |-> ItemView(pp.Items[k], hp)]]

-----------------------------------------------------------------------------
(* Item operations: each gives the Item (and the heap) after the call.     *)

Item_AddEnclosure(it, hp, pp, url, enclosureType, lengthInBytes) ==
    LET a == NewAddr(pp)
        it2 == [it EXCEPT !.Enclosure = a]
        hp2 == [hp EXCEPT ![a] = [ZeroEnclosure EXCEPT !.URL = url,
                                     !.Type = enclosureType,
                                     !.Length = lengthInBytes]]
    IN  [i |-> it2, heap |-> Collect(hp2, pp, it2)]

Item_AddImage(it, url) ==
    IF url # "" THEN [it EXCEPT !.IImage = Ptr([HREF |-> url])] ELSE it

Item_AddPubDate(it, datetime, now) ==
    [it EXCEPT !.PubDate = datetime,
               !.PubDateFormatted = parseDateRFC1123Z(datetime, now)]

Item_AddSummary(it, summary) ==
    LET kept == IF summary.n > SummaryLimit
                THEN [summary EXCEPT !.n = SummaryLimit]
                ELSE summary
    IN  [it EXCEPT !.ISummary = Ptr([Text |-> kept])]

Item_AddDuration(it, durationInSeconds) ==
    IF durationInSeconds <= 0 THEN it
    ELSE [it EXCEPT !.IDuration = parseDuration(durationInSeconds)]

-----------------------------------------------------------------------------
(* Podcast operations: each gives the Podcast after the call.              *)

AddAuthor(pp, name, email) ==
    IF email = "" THEN pp
    ELSE LET me == parseAuthorNameEmail(Ptr(Author(name, email)))
         IN  [pp EXCEPT !.ManagingEditor = me, !.IAuthor = me]

AddAtomLink(pp, href) ==
    IF href = "" THEN pp
    ELSE [pp EXCEPT !.AtomLink =
            Ptr([HREF |-> href, Rel |-> "self", Type |-> "application/rss+xml"])]

RECURSIVE SubCategories(_)
SubCategories(subCategories) ==
    IF subCategories = <<>> THEN <<>>
    ELSE IF Head(subCategories) = "" THEN SubCategories(Tail(subCategories))
    ELSE <<[Text |-> Head(subCategories), ICategories |-> <<>>]>>
            \o SubCategories(Tail(subCategories))

\* AddCategory with the Category string replaced instead of appended to.
AddCategory_replacing(pp, category, subCategories) ==
    IF category = "" THEN pp
    ELSE [pp EXCEPT
            !.Category = category,
            !.ICategories = Append(@, [Text |-> category,
                                       ICategories |-> SubCategories(subCategories)])]

AddCategory(pp, category, subCategories) ==
    IF category = "" THEN pp
    ELSE [pp EXCEPT
            !.Category = IF @ # "" THEN @ \o "," \o category ELSE category,
            !.ICategories = Append(@, [Text |-> category,
                                       ICategories |-> SubCategories(subCategories)])]

AddImage(pp, url) ==
    IF url = "" THEN pp
    ELSE [pp EXCEPT
            !.Image = Ptr([URL |-> url, Title |-> pp.Title, Link |-> pp.Link]),
            !.IImage = Ptr([HREF |-> url])]

AddPubDate(pp, datetime, now) ==
    [pp EXCEPT !.PubDate = parseDateRFC1123Z(datetime, now)]

AddLastBuildDate(pp, datetime, now) ==
    [pp EXCEPT !.LastBuildDate = parseDateRFC1123Z(datetime, now)]

AddSubTitle(pp, subTitle) ==
    IF subTitle.n = 0 THEN pp
    ELSE IF subTitle.n > SubTitleLimit
    THEN [pp EXCEPT !.ISubtitle = [subTitle EXCEPT !.n = SubTitleKeep, !.tail = "..."]]
    ELSE [pp EXCEPT !.ISubtitle = subTitle]

AddSummary(pp, summary) ==
    IF summary.n = 0 THEN pp
    ELSE IF summary.n > SummaryLimit
    THEN [pp EXCEPT !.ISummary = Ptr([Text |-> [summary EXCEPT !.n = SummaryLimit]])]
    ELSE [pp EXCEPT !.ISummary = Ptr([Text |-> summary])]

-----------------------------------------------------------------------------
(* AddItem *)

\* The guards without the one for an Item that has neither Enclosure nor Link.
AddItem_guards_noLink(it, hp) ==
    IF it.Title = "" \/ it.Description = ""
    THEN errors_New("Title and Description are required")
    ELSE IF it.Enclosure # 0
    THEN IF hp[it.Enclosure].URL = ""
         THEN errors_New(it.Title \o ": Enclosure.URL is required")
         ELSE IF EnclosureType_String(hp[it.Enclosure].Type) = enclosureDefault
         THEN errors_New(it.Title \o ": Enclosure.Type is required")
         ELSE NoError
    ELSE NoError

\* The initial guards for required fields: the error they return, or NoError.
AddItem_guards(it, hp) ==
    IF it.Title = "" \/ it.Description = ""
    THEN errors_New("Title and Description are required")
    ELSE IF it.Enclosure # 0
    THEN IF hp[it.Enclosure].URL = ""
         THEN errors_New(it.Title \o ": Enclosure.URL is required")
         ELSE IF EnclosureType_String(hp[it.Enclosure].Type) = enclosureDefault
         THEN errors_New(it.Title \o ": Enclosure.Type is required")
         ELSE NoError
    ELSE IF it.Link = ""
    THEN errors_New(it.Title \o ": Link is required when not using Enclosure")
    ELSE NoError

\* The corrective actions and overrides on the Item itself.
AddItem_overrides(it, hp, now) ==
    LET i1 == [it EXCEPT !.PubDateFormatted = parseDateRFC1123Z(it.PubDate, now),
                         !.AuthorFormatted = parseAuthorNameEmail(it.Author)]
    IN  IF it.Enclosure # 0
        THEN [i1 EXCEPT
                !.GUID = IF @ = "" THEN hp[it.Enclosure].URL ELSE @,
                !.Link = IF @ = "" THEN hp[it.Enclosure].URL ELSE @]
        ELSE [i1 EXCEPT !.GUID = i1.Link]

\* The writes with a negative Length left as it is.
AddItem_enclosure_unclamped(it, hp) ==
    IF it.Enclosure # 0
    THEN LET e == hp[it.Enclosure]
         IN  [hp EXCEPT ![it.Enclosure] =
                [e EXCEPT !.LengthFormatted = FormatInt(e.Length),
                          !.TypeFormatted = EnclosureType_String(e.Type)]]
    ELSE hp

\* The writes through the Item's Enclosure pointer.
AddItem_enclosure(it, hp) ==
    IF it.Enclosure # 0
    THEN LET e == hp[it.Enclosure]
             len == IF e.Length < 0 THEN 0 ELSE e.Length
         IN  [hp EXCEPT ![it.Enclosure] =
                [e EXCEPT !.Length = len,
                          !.LengthFormatted = FormatInt(len),
                          !.TypeFormatted = EnclosureType_String(e.Type)]]
    ELSE hp

\* The inheritance with the Podcast's two fields read in the other order.
AddItem_author_editorFirst(it, pp) ==
    IF it.IAuthor = ""
    THEN IF it.Author # Nil
         THEN [it EXCEPT !.IAuthor = Deref(it.Author).Email]
         ELSE IF pp.ManagingEditor # ""
         THEN [it EXCEPT !.Author = Ptr(Author("", pp.ManagingEditor)),
                         !.IAuthor = pp.ManagingEditor]
         ELSE IF pp.IAuthor # ""
         THEN [it EXCEPT !.Author = Ptr(Author("", pp.IAuthor)),
                         !.IAuthor = pp.IAuthor]
         ELSE it
    ELSE it

AddItem_author(it, pp) ==
    IF it.IAuthor = ""
    THEN IF it.Author # Nil
         THEN [it EXCEPT !.IAuthor = Deref(it.Author).Email]
         ELSE IF pp.IAuthor # ""
         THEN [it EXCEPT !.Author = Ptr(Author("", pp.IAuthor)),
                         !.IAuthor = pp.IAuthor]
         ELSE IF pp.ManagingEditor # ""
         THEN [it EXCEPT !.Author = Ptr(Author("", pp.ManagingEditor)),
                         !.IAuthor = pp.ManagingEditor]
         ELSE it
    ELSE it

\* The Podcast's image given to every Item, one with an image of its own too.
AddItem_image_overriding(it, pp) ==
    IF pp.Image # Nil
    THEN [it EXCEPT !.IImage = Ptr([HREF |-> Deref(pp.Image).URL])]
    ELSE it

AddItem_image(it, pp) ==
    IF it.IImage = Nil /\ pp.Image # Nil
    THEN [it EXCEPT !.IImage = Ptr([HREF |-> Deref(pp.Image).URL])]
    ELSE it

\* The new Item put first.
AddItem_prepend(items, it) == <<it>> \o items

AddItem_append(items, it) == Append(items, it)

\* AddItem(i): the Podcast and the heap after the call, and what it returns.
AddItem(pp, hp, it, now) ==
    LET err == AddItem_guards(it, hp)
    IN  IF err # NoError
        THEN [p |-> pp, heap |-> hp, count |-> Len(pp.Items), err |-> err]
        ELSE LET i1 == AddItem_overrides(it, hp, now)
                 hp1 == AddItem_enclosure(it, hp)
                 i2 == AddItem_author(i1, pp)
                 i3 == AddItem_image(i2, pp)
                 items == AddItem_append(pp.Items, i3)
             IN  [p |-> [pp EXCEPT !.Items = items], heap |-> hp1,
                  count |-> Len(items), err |-> NoError]

-----------------------------------------------------------------------------
(* Serialization *)

XMLDeclaration == "<?xml version=\"1.0\" encoding=\"UTF-8\"?>\n"

\* What a writer receives is a sequence of chunks: plain text, or a document.
TextChunk(text) == [text |-> text, doc |-> Nil]
DocChunk(doc) == [text |-> "", doc |-> Ptr(doc)]

\* The error a failing io.Writer returns.
WriteError == errors_New("write failed")
\* The error a substituted rendering function returns.
StubError == errors_New("stub encode failed")

\* A writer is the number of the Write call that fails (0: none does).
Writers == {0, 1, 2}
Buffer == 0

\* encoding/xml on a podcastWrapper: the attributes of the rss element by the
\* struct tags (omitempty drops an empty xmlns:atom), then the channel.
MarshalIndent(o) ==
    [rss |-> <<<<"version", o.Version>>>>
             \o (IF o.ATOMNS # "" THEN <<<<"xmlns:atom", o.ATOMNS>>>> ELSE <<>>)
             \o <<<<"xmlns:itunes", o.ITUNESNS>>, <<"xmlns:content", o.CONTENTNS>>>>,
     channel |-> o.Channel]

\* The default rendering function; wfails: the writer fails the write.
encoder(o, wfails) ==
    IF wfails
    THEN [written |-> <<>>,
          err |-> errors_Wrap(WriteError, "podcast.encoder: e.Encode returned error")]
    ELSE [written |-> <<DocChunk(MarshalIndent(o))>>, err |-> NoError]

\* p.encode: the function New installs, or one substituted for it.
p_encode(pp, o, wfails) ==
    IF pp.encode = "encoder" THEN encoder(o, wfails)
    ELSE [written |-> <<>>, err |-> StubError]

\* The wrapper with the Atom namespace whether or not there is an AtomLink.
Wrapped_atomAlways(pp, hp) ==
    [ITUNESNS |-> "http://www.itunes.com/dtds/podcast-1.0.dtd",
     ATOMNS |-> "http://www.w3.org/2005/Atom",
     CONTENTNS |-> "http://purl.org/rss/1.0/modules/content/",
     Version |-> "2.0",
     Channel |-> Channel(pp, hp)]

Wrapped(pp, hp) ==
    [ITUNESNS |-> "http://www.itunes.com/dtds/podcast-1.0.dtd",
     ATOMNS |-> IF pp.AtomLink # Nil THEN "http://www.w3.org/2005/Atom" ELSE "",
     CONTENTNS |-> "http://purl.org/rss/1.0/modules/content/",
     Version |-> "2.0",
     Channel |-> Channel(pp, hp)]

NoEncode ==
    [w |-> 0, written |-> <<>>, calls |-> 0, wrapped |-> Nil,
     writeErr |-> NoError, encodeErr |-> NoError, err |-> NoError]

\* Encode going on to the rendering function after a failed write of the
\* declaration.
Encode_goesOn(pp, hp, w) ==
    LET wrapped == Wrapped(pp, hp)
        r == p_encode(pp, wrapped, w # 0)
    IN  [w |-> w,
         written |-> (IF w = 1 THEN <<>> ELSE <<TextChunk(XMLDeclaration)>>) \o r.written,
         calls |-> 1, wrapped |-> Ptr(wrapped),
         writeErr |-> IF w = 1 THEN WriteError ELSE NoError,
         encodeErr |-> r.err, err |-> r.err]

\* Encode(w): the writer, what reaches it, the calls of p.encode and what it
\* was given, the errors met and the error returned.
Encode(pp, hp, w) ==
    IF w = 1
    THEN [NoEncode EXCEPT
            !.w = w,
            !.writeErr = WriteError,
            !.err = errors_Wrap(WriteError, "podcast.Encode: w.Write return error")]
    ELSE LET wrapped == Wrapped(pp, hp)
             r == p_encode(pp, wrapped, w = 2)
         IN  [w |-> w, written |-> <<TextChunk(XMLDeclaration)>> \o r.written,
              calls |-> 1, wrapped |-> Ptr(wrapped), writeErr |-> NoError,
              encodeErr |-> r.err, err |-> r.err]

\* String returning what is in the buffer, then the error text.
String_withPartial(pp, hp) ==
    LET r == Encode(pp, hp, Buffer)
    IN  IF r.err # NoError
        THEN r.written \o <<TextChunk("String: podcast.write returned the error: "
                                        \o err_Error(r.err))>>
        ELSE r.written

\* String(): the text returned (a bytes.Buffer never fails a write).
String(pp, hp) ==
    LET r == Encode(pp, hp, Buffer)
    IN  IF r.err # NoError
        THEN <<TextChunk("String: podcast.write returned the error: "
                            \o err_Error(r.err))>>
        ELSE r.written

Bytes(pp, hp) == String(pp, hp)

-----------------------------------------------------------------------------
(* The state machine: the caller's operations, one action each.            *)

NoReturn == [count |-> 0, err |-> NoError]

\* The last Encode and the last String are remembered for as long as the
\* Podcast they were made from stays as it was.
Observed(pp, hp) ==
    /\ enc' = IF Channel(pp, hp) = Channel(p, heap) THEN enc ELSE NoEncode
    /\ str' = IF Channel(pp, hp) = Channel(p, heap) THEN str ELSE <<>>

Op == nops < MaxOps /\ nops' = nops + 1

\* An operation on the caller's Item: it, hp are the Item and the heap after it.
ItemOp(it, hp) ==
    /\ Op
    /\ i' = it
    /\ heap' = hp
    /\ UNCHANGED <<p, ret, enc, str, catCalls, atomSet>>

\* An operation on the Podcast that leaves the heap and the Item alone.
PodcastOp(pp) ==
    /\ Op
    /\ p' = pp
    /\ Observed(pp, heap)
    /\ UNCHANGED <<i, heap, ret>>

\* item := Item{...}: the caller's composite literal (no Enclosure in it).
SetItem(lit) == ItemOp(lit, Collect(heap, p, lit))

DoItemAddEnclosure(url, enclosureType, lengthInBytes) ==
    /\ FreeAddrs(p) # {}
    /\ LET r == Item_AddEnclosure(i, heap, p, url, enclosureType, lengthInBytes)
       IN  ItemOp(r.i, r.heap)

DoItemAddImage(url) == ItemOp(Item_AddImage(i, url), heap)

DoItemAddPubDate(datetime) ==
    \E now \in NowValues : ItemOp(Item_AddPubDate(i, datetime, now), heap)

DoItemAddSummary(summary) == ItemOp(Item_AddSummary(i, summary), heap)

DoItemAddDuration(durationInSeconds) ==
    ItemOp(Item_AddDuration(i, durationInSeconds), heap)

DoAddAuthor(name, email) ==
    PodcastOp(AddAuthor(p, name, email)) /\ UNCHANGED <<catCalls, atomSet>>

DoAddAtomLink(href) ==
    /\ PodcastOp(AddAtomLink(p, href))
    /\ atomSet' = (atomSet \/ href # "")
    /\ UNCHANGED catCalls

DoAddCategory(category, subCategories) ==
    /\ PodcastOp(AddCategory(p, category, subCategories))
    /\ catCalls' = Append(catCalls, <<category, subCategories>>)
    /\ UNCHANGED atomSet

DoAddImage(url) ==
    PodcastOp(AddImage(p, url)) /\ UNCHANGED <<catCalls, atomSet>>

DoAddPubDate(datetime) ==
    /\ \E now \in NowValues : PodcastOp(AddPubDate(p, datetime, now))
    /\ UNCHANGED <<catCalls, atomSet>>

DoAddLastBuildDate(datetime) ==
    /\ \E now \in NowValues : PodcastOp(AddLastBuildDate(p, datetime, now))
    /\ UNCHANGED <<catCalls, atomSet>>

DoAddSubTitle(subTitle) ==
    PodcastOp(AddSubTitle(p, subTitle)) /\ UNCHANGED <<catCalls, atomSet>>

DoAddSummary(summary) ==
    PodcastOp(AddSummary(p, summary)) /\ UNCHANGED <<catCalls, atomSet>>

\* p.IAuthor = v, p.ManagingEditor = v: the caller's assignments to the two
\* exported fields AddItem reads.
SetIAuthor(v) ==
    PodcastOp([p EXCEPT !.IAuthor = v]) /\ UNCHANGED <<catCalls, atomSet>>

SetManagingEditor(v) ==
    PodcastOp([p EXCEPT !.ManagingEditor = v]) /\ UNCHANGED <<catCalls, atomSet>>

\* p.encode = f: a rendering function substituted for the default one.
SetEncode ==
    /\ p.encode = "encoder"
    /\ PodcastOp([p EXCEPT !.encode = "stub"])
    /\ UNCHANGED <<catCalls, atomSet>>

DoAddItem ==
    \E now \in NowValues :
        LET r == AddItem(p, heap, i, now)
        IN  /\ Op
            /\ p' = r.p
            /\ heap' = r.heap
            /\ ret' = [count |-> r.count, err |-> r.err]
            /\ Observed(r.p, r.heap)
            /\ UNCHANGED <<i, catCalls, atomSet>>

DoEncode(w) ==
    /\ Op
    /\ enc' = Encode(p, heap, w)
    /\ UNCHANGED <<p, i, heap, ret, str, catCalls, atomSet>>

\* String that stamps the Podcast's LastBuildDate as it serializes.
DoString_stamping ==
    /\ Op
    /\ \E now \in NowValues :
        /\ p' = AddLastBuildDate(p, Nil, now)
        /\ str' = String(p', heap)
    /\ UNCHANGED <<i, heap, ret, enc, catCalls, atomSet>>

DoString ==
    /\ Op
    /\ str' = String(p, heap)
    /\ UNCHANGED <<p, i, heap, ret, enc, catCalls, atomSet>>

DoBytes ==
    /\ Op
    /\ str' = Bytes(p, heap)
    /\ UNCHANGED <<p, i, heap, ret, enc, catCalls, atomSet>>

-----------------------------------------------------------------------------
(* The builder: every operation, on a few inputs each.                     *)

Times == {Nil, Ptr(0), Ptr(3)}

Article == [ZeroItem EXCEPT !.Title = "T", !.Link = "L", !.Description = "D"]
Audio == [ZeroItem EXCEPT !.Title = "T", !.Description = "D"]
Untitled == [ZeroItem EXCEPT !.Link = "L", !.Description = "D"]

ItemLiterals == {Article, Audio, Untitled}

InitWith(lits) ==
    /\ \E now \in NowValues : p = New("T", "L", "D", Ptr(3), Ptr(3), now, now)
    /\ i \in lits
    /\ heap = [a \in Addrs |-> ZeroEnclosure]
    /\ ret = NoReturn
    /\ enc = NoEncode
    /\ str = <<>>
    /\ catCalls = <<>>
    /\ atomSet = FALSE
    /\ nops = 0

Init == InitWith(ItemLiterals)

Next ==
    \/ \E lit \in ItemLiterals : SetItem(lit)
    \/ \E url \in {"", "U"}, t \in {MP3, EPUB + 1}, n \in {-1, 5} :
            DoItemAddEnclosure(url, t, n)
    \/ \E url \in {"", "I"} : DoItemAddImage(url)
    \/ \E t \in Times : DoItemAddPubDate(t)
    \/ \E n \in {0, SummaryLimit + 1} : DoItemAddSummary(Text("s", n))
    \/ \E n \in {0, 61} : DoItemAddDuration(n)
    \/ \E name \in {"", "N"}, email \in {"", "e"} : DoAddAuthor(name, email)
    \/ \E href \in {"", "H"} : DoAddAtomLink(href)
    \/ \E c \in {"", "A"}, subs \in {<<>>, <<"", "S">>} : DoAddCategory(c, subs)
    \/ \E url \in {"", "P"} : DoAddImage(url)
    \/ \E t \in Times : DoAddPubDate(t)
    \/ \E t \in Times : DoAddLastBuildDate(t)
    \/ \E n \in {0, SubTitleLimit + 1} : DoAddSubTitle(Text("t", n))
    \/ \E n \in {0, SummaryLimit + 1} : DoAddSummary(Text("s", n))
    \/ \E v \in {"", "ia"} : SetIAuthor(v)
    \/ \E v \in {"", "me"} : SetManagingEditor(v)
    \/ SetEncode
    \/ DoAddItem
    \/ \E w \in Writers : DoEncode(w)
    \/ DoString
    \/ DoBytes

Spec == Init /\ [][Next]_vars

-----------------------------------------------------------------------------
(* AddItem on every combination of the fields its guards and overrides     *)
(* read.                                                                   *)

AddItemLiterals ==
    {[ZeroItem EXCEPT !.Title = t, !.Description = d, !.Link = l, !.GUID = g] :
        t \in {"", "T"}, d \in {"", "D"}, l \in {"", "L"}, g \in {"", "G"}}

InitAddItem == InitWith(AddItemLiterals)

NextAddItem ==
    \/ \E lit \in AddItemLiterals : SetItem(lit)
    \/ \E url \in {"", "U"}, t \in {M4A - 1, M4A, MP3, EPUB, EPUB + 1}, n \in {-1, 0, 5} :
            DoItemAddEnclosure(url, t, n)
    \/ DoAddItem

SpecAddItem == InitAddItem /\ [][NextAddItem]_vars

Last(seq) == seq[Len(seq)]

\* The cases in which the claim says AddItem rejects the Item.
C1_Rejected(it, hp) ==
    \/ it.Title = ""
    \/ it.Description = ""
    \/ it.Enclosure # 0 /\ hp[it.Enclosure].URL = ""
    \/ it.Enclosure # 0 /\ EnclosureType_String(hp[it.Enclosure].Type) = enclosureDefault
    \/ it.Enclosure = 0 /\ it.Link = ""

\* C1: AddItem returns an error exactly when Title or Description is empty, or
\* the Enclosure has an empty URL or a Type that resolves to
\* application/octet-stream, or there is no Enclosure and Link is empty; on a
\* rejection the count returned is the number of Items before the call and the
\* Podcast (its Items and every other field) and the Enclosures are unchanged.
C1_AddItemRejects ==
    [][DoAddItem =>
        IF C1_Rejected(i, heap)
        THEN /\ ret'.err # NoError
             /\ ret'.count = Len(p.Items)
             /\ p' = p
             /\ heap' = heap
        ELSE /\ ret'.err = NoError
             /\ Len(p'.Items) = Len(p.Items) + 1]_vars

\* A rejection after an Item was accepted: the count returned is not 0.
C1_Witness ==
    /\ ret.err # NoError
    /\ ret.count = 1
    /\ Len(p.Items) = 1
    /\ i.Enclosure # 0
    /\ heap[i.Enclosure].URL # ""
    /\ EnclosureType_String(heap[i.Enclosure].Type) = enclosureDefault

\* C2: after a successful AddItem the GUID of the stored Item is the URL of its
\* Enclosure when it has one and its Link when it has none, whatever GUID the
\* caller's Item carried.
C2_GuidAlwaysDerived ==
    [][DoAddItem /\ ret'.err = NoError =>
        Last(p'.Items).GUID =
            IF i.Enclosure # 0 THEN heap[i.Enclosure].URL ELSE i.Link]_vars

-----------------------------------------------------------------------------
(* AddItem's author inheritance on every combination of the Item's Author  *)
(* and IAuthor and the Podcast's IAuthor and ManagingEditor.               *)

AuthorLiterals ==
    {[Article EXCEPT !.Author = a, !.IAuthor = ia] :
        a \in {Nil, Ptr(Author("N", "")), Ptr(Author("", "e")), Ptr(Author("N", "e"))},
        ia \in {"", "ia"}}

InitAuthor == InitWith(AuthorLiterals)

NextAuthor ==
    \/ \E lit \in AuthorLiterals : SetItem(lit)
    \/ \E name \in {"", "M"}, email \in {"", "f"} : DoAddAuthor(name, email)
    \/ \E v \in {"", "pia"} : SetIAuthor(v)
    \/ \E v \in {"", "me"} : SetManagingEditor(v)
    \/ DoAddItem

SpecAuthor == InitAuthor /\ [][NextAuthor]_vars

RECURSIVE FirstNonEmpty(_)
FirstNonEmpty(strs) ==
    IF strs = <<>> THEN ""
    ELSE IF Head(strs) # "" THEN Head(strs)
    ELSE FirstNonEmpty(Tail(strs))

\* The Item's own author as a text: the Email of its Author, "" without one.
OwnAuthor(it) == IF it.Author # Nil THEN Deref(it.Author).Email ELSE ""

\* C5 as stated: the stored IAuthor of an Item inserted with an empty IAuthor is
\* the first non-empty of the Item's own author, the Podcast's IAuthor and the
\* Podcast's ManagingEditor; a non-empty IAuthor is stored unchanged.
C5_FirstNonEmptyWins ==
    [][DoAddItem /\ ret'.err = NoError =>
        Last(p'.Items).IAuthor =
            IF i.IAuthor # "" THEN i.IAuthor
            ELSE FirstNonEmpty(<<OwnAuthor(i), p.IAuthor, p.ManagingEditor>>)]_vars

\* C5 amended: the stored IAuthor of an Item inserted with an empty IAuthor is
\* the Email of the Item's Author whenever the Item has an Author, be that Email
\* empty or not; without an Author it is the first non-empty of the Podcast's
\* IAuthor and ManagingEditor (empty only if both are); a non-empty IAuthor is
\* stored unchanged.
C5_AuthorInheritance ==
    [][DoAddItem /\ ret'.err = NoError =>
        Last(p'.Items).IAuthor =
            IF i.IAuthor # "" THEN i.IAuthor
            ELSE IF i.Author # Nil THEN Deref(i.Author).Email
            ELSE FirstNonEmpty(<<p.IAuthor, p.ManagingEditor>>)]_vars

\* An Item without Author or IAuthor was stored with the Podcast's
\* ManagingEditor, the Podcast's IAuthor being empty.
C5_Witness ==
    /\ ret.err = NoError
    /\ Len(p.Items) = 1
    /\ i.IAuthor = ""
    /\ i.Author = Nil
    /\ p.IAuthor = ""
    /\ p.ManagingEditor = "me"
    /\ p.Items[1].IAuthor = "me"

-----------------------------------------------------------------------------
(* AddCategory, called again and again on a new Podcast.                   *)

Categories == {"", "A", "B"}
SubCategoryLists == {<<>>, <<"S">>, <<"", "R", "S">>}

NextCategory ==
    \E c \in Categories, subs \in SubCategoryLists : DoAddCategory(c, subs)

SpecCategory == InitWith({ZeroItem}) /\ [][NextCategory]_vars

RECURSIVE NonEmpty(_)
NonEmpty(strs) ==
    IF strs = <<>> THEN <<>>
    ELSE IF Head(strs) = "" THEN NonEmpty(Tail(strs))
    ELSE <<Head(strs)>> \o NonEmpty(Tail(strs))

RECURSIVE CommaJoin(_)
CommaJoin(strs) ==
    IF strs = <<>> THEN ""
    ELSE IF Len(strs) = 1 THEN strs[1]
    ELSE strs[1] \o "," \o CommaJoin(Tail(strs))

\* The AddCategory calls so far whose category was not empty.
C6_Calls == SelectSeq(catCalls, LAMBDA c : c[1] # "")

\* C6: the Category string is the comma-join, in call order, of the non-empty
\* category arguments of the AddCategory calls so far, and ICategories holds one
\* node per such call, in call order, whose children are the non-empty
\* subcategories of the call in the order given.
C6_CategoriesCumulative ==
    /\ p.Category = CommaJoin([k \in 1..Len(C6_Calls) |-> C6_Calls[k][1]])
    /\ Len(p.ICategories) = Len(C6_Calls)
    /\ \A k \in 1..Len(C6_Calls) :
        LET node == p.ICategories[k]
            subs == NonEmpty(C6_Calls[k][2])
        IN  /\ node.Text = C6_Calls[k][1]
            /\ Len(node.ICategories) = Len(subs)
            /\ \A j \in 1..Len(subs) :
                /\ node.ICategories[j].Text = subs[j]
                /\ node.ICategories[j].ICategories = <<>>

\* "A", then an empty category, then "B": "A,B" and two nodes.
C6_Witness ==
    /\ Len(catCalls) = 3
    /\ catCalls[1][1] = "A"
    /\ catCalls[2][1] = ""
    /\ catCalls[3] = <<"B", <<"", "R", "S">>>>
    /\ p.Category = "A,B"
    /\ Len(p.ICategories) = 2
    /\ Len(p.ICategories[2].ICategories) = 2

-----------------------------------------------------------------------------
(* AddDuration on durations around every boundary of parseDuration.        *)

DurationUnits == {0, 1, 9, 10, 11, 59}
DurationHours == {0, 1, 9, 10, 99, 100}

DurationInputs ==
    {-3600, -1, 0}
        \cup {h * 3600 + m * 60 + s :
                h \in DurationHours, m \in DurationUnits, s \in DurationUnits}

NextDuration == \E n \in DurationInputs : DoItemAddDuration(n)

SpecDuration == InitWith({ZeroItem}) /\ [][NextDuration]_vars

\* Reading a duration text back: its fields between the colons, and the number
\* a field of decimal digits denotes.
RECURSIVE ColonFields(_)
ColonFields(text) ==
    LET colons == {k \in 1..Len(text) : SubSeq(text, k, k) = ":"}
    IN  IF colons = {} THEN <<text>>
        ELSE LET k == CHOOSE c \in colons : \A d \in colons : c <= d
             IN  <<SubSeq(text, 1, k - 1)>>
                    \o ColonFields(SubSeq(text, k + 1, Len(text)))

DigitValue(c) ==
    CASE c = "0" -> 0 [] c = "1" -> 1 [] c = "2" -> 2 [] c = "3" -> 3
      [] c = "4" -> 4 [] c = "5" -> 5 [] c = "6" -> 6 [] c = "7" -> 7
      [] c = "8" -> 8 [] c = "9" -> 9 [] OTHER -> -1

IsNumber(field) ==
    /\ Len(field) > 0
    /\ \A k \in 1..Len(field) : DigitValue(SubSeq(field, k, k)) >= 0

RECURSIVE NumberValue(_)
NumberValue(field) ==
    IF Len(field) = 0 THEN 0
    ELSE 10 * NumberValue(SubSeq(field, 1, Len(field) - 1))
            + DigitValue(SubSeq(field, Len(field), Len(field)))

\* field is value written in decimal with exactly width digits
Field(field, value, width) ==
    IsNumber(field) /\ Len(field) = width /\ NumberValue(field) = value

\* The layout the claim gives for a duration of n > 0 seconds.  HH is the hours
\* zero-padded to two digits: hours above 99 take the digits they need.
C10_Layout(n, text) ==
    LET h == n \div 3600
        m == (n % 3600) \div 60
        s == n % 60
        f == ColonFields(text)
    IN  IF h > 9
        THEN /\ Len(f) = 3
             /\ Field(f[1], h, IF h > 99 THEN Len(f[1]) ELSE 2)
             /\ Field(f[2], m, 2)
             /\ Field(f[3], s, 2)
        ELSE IF h > 0
        THEN /\ Len(f) = 3
             /\ Field(f[1], h, 1)
             /\ Field(f[2], m, 2)
             /\ Field(f[3], s, 2)
        ELSE IF m > 9
        THEN /\ Len(f) = 2
             /\ Field(f[1], m, 2)
             /\ Field(f[2], s, 2)
        ELSE /\ Len(f) = 2
             /\ Field(f[1], m, 1)
             /\ Field(f[2], s, 2)

\* C10: AddDuration with seconds <= 0 leaves IDuration as it was; with
\* seconds > 0 it sets it to HH:MM:SS when h > 9, H:MM:SS when 0 < h <= 9, MM:SS
\* when h = 0 and m > 9, and M:SS otherwise (61 -> 1:01, 661 -> 11:01,
\* 3661 -> 1:01:01, 36000 -> 10:00:00); no other field of the Item changes.
C10_DurationLayout ==
    [][\A n \in DurationInputs :
        DoItemAddDuration(n) =>
            /\ n <= 0 => i' = i
            /\ n > 0 => /\ C10_Layout(n, i'.IDuration)
                        /\ i' = [i EXCEPT !.IDuration = i'.IDuration]
            /\ n = 61 => i'.IDuration = "1:01"
            /\ n = 661 => i'.IDuration = "11:01"
            /\ n = 3661 => i'.IDuration = "1:01:01"
            /\ n = 36000 => i'.IDuration = "10:00:00"]_vars

\* Three calls, the last one with a duration of ten hours or more.
C10_Witness == i.IDuration = "10:00:00" /\ nops = 3

-----------------------------------------------------------------------------
(* The builder as a whole (Spec).                                          *)

Serialize == (\E w \in Writers : DoEncode(w)) \/ DoString \/ DoBytes

\* C3: the Items only grow at the end.  A successful AddItem returns the count
\* before it plus one and puts the caller's Item last, and is the only step
\* that changes the number of Items; no step (another AddItem, an operation on
\* the Podcast or on the caller's Item, a serialization) changes the position
\* or any field, the Enclosure's included, of an Item already there.
C3_AppendOnly ==
    [][/\ Len(p'.Items) >= Len(p.Items)
       /\ \A k \in 1..Len(p.Items) :
            ItemView(p'.Items[k], heap') = ItemView(p.Items[k], heap)
       /\ DoAddItem /\ ret'.err = NoError =>
            /\ Len(p'.Items) = Len(p.Items) + 1
            /\ ret'.count = Len(p.Items) + 1
            /\ Last(p'.Items).Title = i.Title
            /\ Last(p'.Items).Description = i.Description
            /\ Last(p'.Items).Enclosure = i.Enclosure
       /\ Len(p'.Items) # Len(p.Items) => DoAddItem /\ ret'.err = NoError]_vars

\* The same Item added twice is there twice, and a later operation has run.
C3_Witness ==
    /\ Len(p.Items) = 2
    /\ p.Items[1] = p.Items[2]
    /\ ret = [count |-> 2, err |-> NoError]
    /\ nops = 3

\* C4: Encode, String and Bytes leave the Podcast, its Items and their
\* Enclosures as they were, whether they succeed or fail; and a second String or
\* Bytes, or a second Encode to a writer that behaves alike, of a Podcast not
\* changed since the first, gives what the first gave.
C4_SerializeReadsOnly ==
    [][/\ Serialize => p' = p /\ heap' = heap /\ i' = i
       /\ (DoString \/ DoBytes) /\ str # <<>> => str' = str
       /\ \A w \in Writers :
            DoEncode(w) /\ enc # NoEncode /\ enc.w = w => enc' = enc]_vars

\* A String of a Podcast with an Item repeated what an earlier Encode wrote.
C4_Witness ==
    /\ Len(p.Items) = 1
    /\ enc.calls = 1
    /\ enc.err = NoError
    /\ str = enc.written

EncodeRan == enc # NoEncode

\* C7 as stated: Encode writes the declaration, then calls the rendering
\* function once; the error of the declaration's write or of the rendering
\* function is what Encode returns, as it is; after a failed write of the
\* declaration the rendering function is not called.
C7_ErrorsUnchanged ==
    EncodeRan =>
        /\ enc.writeErr # NoError => enc.err = enc.writeErr /\ enc.calls = 0
        /\ enc.writeErr = NoError =>
            /\ enc.calls = 1
            /\ enc.written[1] = TextChunk(XMLDeclaration)
            /\ enc.err = enc.encodeErr

\* C7 amended: Encode writes the declaration, then calls the rendering function
\* once; the rendering function's error is returned as it is; the error of the
\* declaration's write is returned wrapped, with the message
\* "podcast.Encode: w.Write return error" before it and the write's error as its
\* cause; after a failed write of the declaration the rendering function is not
\* called and nothing more is written.
C7_EncodeErrors ==
    EncodeRan =>
        /\ enc.writeErr # NoError =>
            /\ enc.err = <<"podcast.Encode: w.Write return error">> \o enc.writeErr
            /\ err_Error(enc.err)
                = "podcast.Encode: w.Write return error: " \o err_Error(enc.writeErr)
            /\ enc.calls = 0
            /\ enc.wrapped = Nil
            /\ enc.written = <<>>
        /\ enc.writeErr = NoError =>
            /\ enc.calls = 1
            /\ enc.written[1] = TextChunk(XMLDeclaration)
            /\ enc.err = enc.encodeErr

\* An Encode whose write of the declaration failed.
C7_Witness == EncodeRan /\ enc.writeErr # NoError /\ enc.err # NoError

\* C8: String returns what Encode wrote to the buffer when Encode succeeds, and
\* when Encode fails the text "String: podcast.write returned the error: "
\* followed by the error's description, and none of what reached the buffer.
C8_StringMasksFailure ==
    str # <<>> =>
        LET r == Encode(p, heap, Buffer)
        IN  /\ r.err = NoError => str = r.written
            /\ r.err # NoError =>
                /\ Len(str) = 1
                /\ str[1].doc = Nil
                /\ str[1].text
                    = "String: podcast.write returned the error: " \o err_Error(r.err)
                /\ \A k \in 1..Len(r.written) : r.written[k] # str[1]
            /\ p.encode = "stub" =>
                str = <<TextChunk(
                    "String: podcast.write returned the error: stub encode failed")>>

\* A String whose Encode failed after the declaration reached the buffer.
C8_Witness ==
    /\ str # <<>>
    /\ Encode(p, heap, Buffer).err # NoError
    /\ Len(Encode(p, heap, Buffer).written) = 1

\* C9: what Encode hands to the rendering function has Version "2.0", the
\* iTunes and the content namespaces, and an Atom namespace that is not empty
\* exactly when the Podcast has an AtomLink, which it has exactly when
\* AddAtomLink was called with an href that is not empty; the AtomLink has Rel
\* "self" and Type "application/rss+xml"; the rss element rendered has the
\* xmlns:atom attribute exactly when the Podcast has an AtomLink.
C9_Envelope ==
    /\ p.AtomLink # Nil <=> atomSet
    /\ p.AtomLink # Nil =>
        /\ Deref(p.AtomLink).Rel = "self"
        /\ Deref(p.AtomLink).Type = "application/rss+xml"
        /\ Deref(p.AtomLink).HREF # ""
    /\ enc.calls = 1 =>
        LET o == Deref(enc.wrapped)
        IN  /\ o.Version = "2.0"
            /\ o.ITUNESNS = "http://www.itunes.com/dtds/podcast-1.0.dtd"
            /\ o.CONTENTNS = "http://purl.org/rss/1.0/modules/content/"
            /\ o.ATOMNS # "" <=> p.AtomLink # Nil
            /\ o.ATOMNS # "" => o.ATOMNS = "http://www.w3.org/2005/Atom"
            /\ o.Channel = Channel(p, heap)
    /\ enc.calls = 1 /\ enc.err = NoError =>
        LET rss == Deref(enc.written[2].doc).rss
        IN  (\E k \in 1..Len(rss) : rss[k][1] = "xmlns:atom") <=> p.AtomLink # Nil

\* An Encode of a Podcast with an AtomLink.
C9_Witness == enc.calls = 1 /\ enc.err = NoError /\ p.AtomLink # Nil

-----------------------------------------------------------------------------
(* AddItem's image inheritance: Items with and without an image of their   *)
(* own, added before and after the Podcast gets or changes its image.      *)

ImageURLs == {"", "P", "Q"}

ImageLiterals ==
    {[Article EXCEPT !.IImage = img] : img \in {Nil, Ptr([HREF |-> "own"])}}

NextImage ==
    \/ \E lit \in ImageLiterals : SetItem(lit)
    \/ \E url \in {"", "I"} : DoItemAddImage(url)
    \/ \E url \in ImageURLs : DoAddImage(url)
    \/ DoAddItem

SpecImage == InitWith(ImageLiterals) /\ [][NextImage]_vars

\* C11: an Item added without an image of its own is stored with the URL of
\* the Podcast's Image if the Podcast has one when AddItem runs and with no
\* image if it has none; an Item with an image of its own keeps it; the Podcast
\* has an Image exactly from the first AddImage with a non-empty url on, the
\* last such url being its URL; and no step, an AddImage after the insertion
\* included, changes the image of an Item already there.
C11_ImageAtInsertion ==
    [][/\ DoAddItem /\ ret'.err = NoError =>
            Last(p'.Items).IImage =
                IF i.IImage # Nil THEN i.IImage
                ELSE IF p.Image # Nil THEN Ptr([HREF |-> Deref(p.Image).URL])
                ELSE Nil
       /\ \A url \in ImageURLs :
            DoAddImage(url) =>
                /\ p'.Items = p.Items
                /\ p'.Image # Nil <=> (p.Image # Nil \/ url # "")
                /\ url # "" => Deref(p'.Image).URL = url
                /\ url = "" => p'.Image = p.Image
       /\ Len(p'.Items) >= Len(p.Items)
       /\ \A k \in 1..Len(p.Items) : p'.Items[k].IImage = p.Items[k].IImage]_vars

\* An Item added before the Podcast had an image is still without one after
\* AddImage, and the same Item added after it has the Podcast's.
C11_Witness ==
    /\ Len(p.Items) = 2
    /\ p.Items[1].IImage = Nil
    /\ p.Items[2].IImage = Ptr([HREF |-> "P"])
    /\ p.Image # Nil
    /\ Deref(p.Image).URL = "P"
    /\ i.IImage = Nil

-----------------------------------------------------------------------------
(* The Items of the Podcast, in every state (SpecAddItem).                 *)

\* text is n >= 0 written in decimal, without sign or leading zeros
Decimal(text, n) ==
    /\ IsNumber(text)
    /\ NumberValue(text) = n
    /\ Len(text) = 1 \/ SubSeq(text, 1, 1) # "0"

\* What the claim says of an Item of the Podcast and the Enclosure it points at.
C12_WellFormed(it, hp) ==
    /\ it.Title # ""
    /\ it.Description # ""
    /\ it.GUID # ""
    /\ it.Link # ""
    /\ it.Enclosure # 0 =>
        LET e == hp[it.Enclosure]
        IN  /\ e.URL # ""
            /\ e.Type \in M4A..EPUB
            /\ e.TypeFormatted = EnclosureType_String(e.Type)
            /\ e.TypeFormatted # "application/octet-stream"
            /\ e.Length >= 0
            /\ Decimal(e.LengthFormatted, e.Length)

\* C12: after every step each Item of the Podcast has a non-empty Title,
\* Description, GUID and Link and, if it has an Enclosure, one with a non-empty
\* URL, a TypeFormatted that is the MIME string of its Type and not
\* application/octet-stream, a Length >= 0 and a LengthFormatted that is that
\* Length in decimal; a successful AddItem of an Item with an Enclosure stores a
\* negative Length as 0 and any other Length as it is, and stores the
\* Enclosure's URL as Link when the caller's Link is empty and the caller's Link
\* otherwise.  (The Podcast starts without Items.)
C12_ItemsWellFormed ==
    [][/\ \A k \in 1..Len(p'.Items) : C12_WellFormed(p'.Items[k], heap')
       /\ DoAddItem /\ ret'.err = NoError /\ i.Enclosure # 0 =>
            LET e == heap[i.Enclosure]
            IN  /\ Last(p'.Items).Enclosure = i.Enclosure
                /\ heap'[i.Enclosure].Length = (IF e.Length < 0 THEN 0 ELSE e.Length)
                /\ heap'[i.Enclosure].URL = e.URL
                /\ heap'[i.Enclosure].Type = e.Type
                /\ Last(p'.Items).Link = (IF i.Link = "" THEN e.URL ELSE i.Link)]_vars

\* An Item with an empty Link and an Enclosure, added twice: both Items have the
\* Enclosure's URL as Link and point at the one Enclosure, of Length 0 written
\* "0".
C12_Witness ==
    /\ Len(p.Items) = 2
    /\ i.Link = ""
    /\ i.Enclosure # 0
    /\ p.Items[2].Enclosure = i.Enclosure
    /\ p.Items[2].Link = "U"
    /\ heap[i.Enclosure].Length = 0
    /\ heap[i.Enclosure].LengthFormatted = "0"
    /\ heap[i.Enclosure].TypeFormatted = "document/x-epub"
    /\ p.Items[1] = p.Items[2]

====
